---- MODULE Spec2Model ----
(***************************************************************************)
(* pdf-opticompress: the preset policy, the image optimization pass, the   *)
(* single-file pipeline (optimize_pdf, the analyze command) and the batch  *)
(* driver of main.rs.                                                      *)
(*                                                                         *)
(* The PDF library (lopdf) and the image codecs (image, oxipng) are        *)
(* external: a document is the data the program reads from it (page count, *)
(* trailer Root, the object table), and a codec call is a nondeterministic *)
(* choice between an error and one of a few output payloads.               *)
(***************************************************************************)
EXTENDS Integers, Sequences, FiniteSets, TLC

VARIABLES
    cmd,        \* what is run: the "optimize", "analyze" or "batch" command, or a
                \* function on its own: "preset" (create_image_settings_for_preset)
                \* or "pass" (optimize_images_in_pdf)
    preset,     \* --preset (the batch passes Preset::Web)
    quality,    \* --quality, a u8 (the batch passes 80)
    files,      \* the input files on disk, by input index
    out,        \* the output files on disk, by input index: <<>> or <<size>>
    run,        \* per input index: the locals of its optimize_pdf / analyze run
    main        \* the locals of main(): position, results, totals

vars == <<cmd, preset, quality, files, out, run, main>>

(***************************************************************************)
(* Bounds of the model.                                                    *)
(***************************************************************************)
MaxObjs == 2        \* objects per document (single-file specifications)
MaxFiles == 2       \* input files of a batch
MaxThreads == 2     \* the largest --threads value tried
MaxCpus == 2        \* the largest rayon default thread count tried

(***************************************************************************)
(* Small helpers.                                                          *)
(***************************************************************************)
Max(a, b) == IF a >= b THEN a ELSE b
Min(a, b) == IF a <= b THEN a ELSE b

RECURSIVE SeqsUpTo(_, _)
SeqsUpTo(S, n) ==
    IF n = 0 THEN {<<>>}
    ELSE LET shorter == SeqsUpTo(S, n - 1)
         IN  shorter \cup {Append(s, x) : s \in {t \in shorter : Len(t) = n - 1}, x \in S}

StartsWith(content, prefix) ==
    /\ Len(content) >= Len(prefix)
    /\ SubSeq(content, 1, Len(prefix)) = prefix

(***************************************************************************)
(* cli.rs: the presets and the quality field.                              *)
(***************************************************************************)
Presets == {"Web", "Print", "Archive", "Maximum"}
U8 == 0..255

(***************************************************************************)
(* image_optimizer.rs: the preset policy.                                  *)
(* Option<u32> is a sequence: <<>> is None, <<d>> is Some(d).              *)
(***************************************************************************)
MutSettingsPrintMin(p, q) ==
    CASE p = "Web"     -> [jpeg_quality |-> q, enable_png_optimization |-> TRUE,
                           max_dimension |-> <<1920>>]
      [] p = "Print"   -> [jpeg_quality |-> Min(q, 85), enable_png_optimization |-> TRUE,
                           max_dimension |-> <<>>]
      [] p = "Archive" -> [jpeg_quality |-> q, enable_png_optimization |-> TRUE,
                           max_dimension |-> <<>>]
      [] p = "Maximum" -> [jpeg_quality |-> Min(q, 70), enable_png_optimization |-> TRUE,
                           max_dimension |-> <<1024>>]

create_image_settings_for_preset(p, q) ==
    CASE p = "Web"     -> [jpeg_quality |-> q, enable_png_optimization |-> TRUE,
                           max_dimension |-> <<1920>>]
      [] p = "Print"   -> [jpeg_quality |-> Max(q, 85), enable_png_optimization |-> TRUE,
                           max_dimension |-> <<>>]
      [] p = "Archive" -> [jpeg_quality |-> q, enable_png_optimization |-> TRUE,
                           max_dimension |-> <<>>]
      [] p = "Maximum" -> [jpeg_quality |-> Min(q, 70), enable_png_optimization |-> TRUE,
                           max_dimension |-> <<1024>>]

\* pdf_writer.rs: every preset enables structural compression.
create_save_options_for_preset(p) ==
    CASE p = "Web"     -> [enable_compression |-> TRUE]
      [] p = "Print"   -> [enable_compression |-> TRUE]
      [] p = "Archive" -> [enable_compression |-> TRUE]
      [] p = "Maximum" -> [enable_compression |-> TRUE]

(***************************************************************************)
(* The document as the program sees it (lopdf::Document).                  *)
(*   pages     what get_pages() returns, as a count                        *)
(*   root      whether trailer.get(b"Root") is Ok                          *)
(*   objects   the object table in key order (a BTreeMap), each object a   *)
(*             Stream (dict, content), a Dictionary (dict) or another kind *)
(*   compressed  whether doc.compress() has run on it                      *)
(* A dictionary entry is [t, v]: t the lopdf::Object variant, v its value. *)
(* Length is an Option: <<>> absent, <<n>> the integer n.                  *)
(***************************************************************************)
Name(v) == [t |-> "Name", v |-> v]
Array(v) == [t |-> "Array", v |-> v]
Absent == [t |-> "Absent", v |-> ""]

Dict(subtype, filter, type, length) ==
    [Subtype |-> subtype, Filter |-> filter, Type |-> type, Length |-> length]

Stream(dict, content) == [kind |-> "Stream", dict |-> dict, content |-> content]
Dictionary(dict) == [kind |-> "Dictionary", dict |-> dict, content |-> <<>>]
OtherObject == [kind |-> "Other", dict |-> Dict(Absent, Absent, Absent, <<>>), content |-> <<>>]

\* Payloads, as bytes.
PngSignature == <<137, 80, 78, 71>>                \* b"\x89PNG"
PngBytes == <<137, 80, 78, 71, 13, 10, 26>>
JpegBytes == <<255, 216, 255>>
TextBytes == <<66, 84, 10>>                        \* b"BT\n"
FormBytes == <<113, 10, 66, 84, 10, 69, 84, 10, 81>>   \* "q\nBT\nET\nQ"

\* What the codecs may return as a new payload.
JpegOutputs == {<<255, 216>>, <<255, 216, 255, 224, 0, 16>>}
PngOutputs == {<<137, 80, 78, 71>>, <<137, 80, 78, 71, 13, 10, 26, 10>>}

WithLength(content, f) == Dict(Name("Image"), f, Name("XObject"), <<Len(content)>>)

JpegImage == Stream(WithLength(JpegBytes, Name("DCTDecode")), JpegBytes)
FlatePngImage == Stream(WithLength(PngBytes, Name("FlateDecode")), PngBytes)
BarePngImage == Stream(WithLength(PngBytes, Absent), PngBytes)
FlateRawImage == Stream(WithLength(JpegBytes, Array("FlateDecode")), JpegBytes)
DctPngImage == Stream(WithLength(PngBytes, Name("DCTDecode")), PngBytes)
LzwPngImage == Stream(WithLength(PngBytes, Name("LZWDecode")), PngBytes)
ContentStream == Stream(Dict(Absent, Absent, Absent, <<Len(TextBytes)>>), TextBytes)
FormStream ==
    Stream(Dict(Name("Form"), Name("FlateDecode"), Name("XObject"), <<>>), FormBytes)
FontDictionary == Dictionary(Dict(Name("Type1"), Absent, Name("Font"), <<>>))
PageDictionary == Dictionary(Dict(Absent, Absent, Name("Page"), <<>>))
\* An image stream whose payload is n bytes long.
SizedImage(n) ==
    Stream(WithLength([k \in 1..n |-> 0], Name("DCTDecode")), [k \in 1..n |-> 0])

ImageObjects ==
    {JpegImage, FlatePngImage, BarePngImage, FlateRawImage, DctPngImage, LzwPngImage}
PlainObjects == {ContentStream, FormStream, FontDictionary, OtherObject}
ObjectPool == ImageObjects \cup PlainObjects

Doc(pages, root, objects) ==
    [pages |-> pages, root |-> root, objects |-> objects, compressed |-> FALSE]
EmptyDoc == Doc(0, FALSE, <<>>)

(***************************************************************************)
(* image_optimizer.rs: the image optimization pass.                        *)
(***************************************************************************)
MutIsImageAnySubtype(stream) == stream.dict.Subtype.t = "Name"

MutImageOnlyIfDct(stream) ==
    stream.dict.Subtype = Name("Image") /\ stream.dict.Filter = Name("DCTDecode")

is_image_stream(stream) ==
    /\ stream.dict.Subtype.t = "Name"
    /\ stream.dict.Subtype.v = "Image"

MutDetectSignatureFirst(stream) ==
    IF StartsWith(stream.content, PngSignature) THEN "Png" ELSE "Jpeg"

detect_image_format(stream) ==
    IF stream.dict.Filter.t = "Name" /\ stream.dict.Filter.v = "DCTDecode"
    THEN "Jpeg"
    ELSE IF /\ stream.dict.Filter.t = "Name"
            /\ stream.dict.Filter.v = "FlateDecode"
            /\ StartsWith(stream.content, PngSignature)
    THEN "Png"
    ELSE IF StartsWith(stream.content, PngSignature)
    THEN "Png"
    ELSE "Jpeg"

MutKeepLength(original, new_content) == [original EXCEPT !.content = new_content]

create_optimized_stream(original, new_content) ==
    [original EXCEPT !.content = new_content,
                     !.dict.Length = <<Len(new_content)>>]

\* A codec result: Err, or Ok(bytes) with the encoder calls made on the way.
\* An encoder call records the quality argument it was given, an Option.
\* calls lists the library calls made, in order, each with its argument.
\* img.write_to(cursor, ImageFormat::Jpeg): the format is the only argument
\* besides the writer; settings.jpeg_quality is not read.
WriteToJpeg == [format |-> "Jpeg", quality |-> <<>>]

CodecErr == [ok |-> FALSE, bytes |-> <<>>, enc |-> <<>>, calls |-> <<>>]
CodecOk(bytes, enc) == [ok |-> TRUE, bytes |-> bytes, enc |-> enc, calls |-> <<>>]
Call(fn, arg) == [fn |-> fn, arg |-> arg]

\* load_from_memory_with_format(data, format), resize_image_if_needed(img,
\* settings), img.write_to(.., Jpeg): the decode may fail, and so may the
\* encode after the two other calls.
DecodeResizeEncode(data, format, settings) ==
    LET load == Call("load_from_memory_with_format", <<data, format>>)
        resize == Call("resize_image_if_needed", settings.max_dimension)
        write == Call("write_to", "Jpeg")
    IN  {[CodecErr EXCEPT !.calls = <<load>>],
         [CodecErr EXCEPT !.calls = <<load, resize, write>>]}
            \cup {[CodecOk(b, <<WriteToJpeg>>) EXCEPT !.calls = <<load, resize, write>>] :
                      b \in JpegOutputs}

optimize_jpeg_image(data, settings) == DecodeResizeEncode(data, "Jpeg", settings)

\* optimize_from_memory(data, &Options::default()): the only call.
optimize_png_image(data, settings) ==
    LET optimize == Call("optimize_from_memory", data)
    IN  {[CodecErr EXCEPT !.calls = <<optimize>>]}
            \cup {[CodecOk(b, <<>>) EXCEPT !.calls = <<optimize>>] : b \in PngOutputs}

convert_and_optimize_image(data, format, settings) ==
    DecodeResizeEncode(data, format, settings)

\* Result<Option<Stream>>: tag is "Some", "None" or "Err"; failed records
\* that a codec call returned an error, format what detect_image_format
\* returned, calls the library calls made.
StreamErr ==
    [tag |-> "Err", stream |-> OtherObject, enc |-> <<>>, failed |-> TRUE,
     format |-> "", calls |-> <<>>]
StreamNone ==
    [tag |-> "None", stream |-> OtherObject, enc |-> <<>>, failed |-> FALSE,
     format |-> "", calls |-> <<>>]

MutSkipOnCodecError(stream, r) ==
    IF r.ok
    THEN [tag |-> "Some", stream |-> create_optimized_stream(stream, r.bytes),
          enc |-> r.enc, failed |-> FALSE, format |-> "", calls |-> r.calls]
    ELSE [StreamNone EXCEPT !.failed = TRUE, !.calls = r.calls]

\* Ok(Some(create_optimized_stream(stream, &codec(..)?)))
StreamSome(stream, r) ==
    IF r.ok
    THEN [tag |-> "Some", stream |-> create_optimized_stream(stream, r.bytes),
          enc |-> r.enc, failed |-> FALSE, format |-> "", calls |-> r.calls]
    ELSE [StreamErr EXCEPT !.calls = r.calls]

Detected(format, outcomes) == {[o EXCEPT !.format = format] : o \in outcomes}

MutPngIgnoresFlag(stream, settings) ==
    LET format == detect_image_format(stream)
    IN  CASE format = "Jpeg" ->
               Detected(format, {StreamSome(stream, r) :
                   r \in optimize_jpeg_image(stream.content, settings)})
          [] format = "Png" ->
               Detected(format, {StreamSome(stream, r) :
                   r \in optimize_png_image(stream.content, settings)})
          [] OTHER ->
               Detected(format, {StreamSome(stream, r) :
                   r \in convert_and_optimize_image(stream.content, format, settings)})

optimize_image_stream(stream, settings) ==
    LET format == detect_image_format(stream)
    IN  CASE format = "Jpeg" ->
               Detected(format, {StreamSome(stream, r) :
                   r \in optimize_jpeg_image(stream.content, settings)})
          [] format = "Png" ->
               IF settings.enable_png_optimization
               THEN Detected(format, {StreamSome(stream, r) :
                        r \in optimize_png_image(stream.content, settings)})
               ELSE Detected(format, {StreamNone})
          [] OTHER ->
               Detected(format, {StreamSome(stream, r) :
                   r \in convert_and_optimize_image(stream.content, format, settings)})

(***************************************************************************)
(* image_optimizer.rs: resize_image_if_needed. Its arithmetic is in f32:   *)
(* a positive f32 is kept as [m, e], the value m * 2^e with a 24-bit       *)
(* mantissa 2^23 <= m < 2^24, and every operation rounds to nearest, ties  *)
(* to even, as IEEE 754 does.                                              *)
(***************************************************************************)
F32Bits == 24

RECURSIVE Normalize(_, _)
Normalize(m, e) ==
    IF m >= 2^(F32Bits - 1) THEN [m |-> m, e |-> e] ELSE Normalize(2 * m, e - 1)

\* `n as f32` for 1 <= n < 2^24: exact.
as_f32(n) == Normalize(n, 0)

\* q * 2^e where q has F32Bits + 1 bits, its last one the rounding bit, and
\* sticky tells whether anything nonzero lies below it.
RoundToNearestEven(q, sticky, e) ==
    LET m == q \div 2
        up == q % 2 = 1 /\ (sticky \/ m % 2 = 1)
    IN  IF ~up THEN [m |-> m, e |-> e + 1]
        ELSE IF m + 1 = 2^F32Bits THEN [m |-> 2^(F32Bits - 1), e |-> e + 2]
        ELSE [m |-> m + 1, e |-> e + 1]

\* n more quotient bits of (q * d + r) / d.
RECURSIVE LongDivision(_, _, _, _)
LongDivision(q, r, d, n) ==
    IF n = 0 THEN [q |-> q, r |-> r]
    ELSE IF 2 * r >= d THEN LongDivision(2 * q + 1, 2 * r - d, d, n - 1)
    ELSE LongDivision(2 * q, 2 * r, d, n - 1)

\* a / b in f32.
DivF32(a, b) ==
    LET bits == IF a.m >= b.m THEN F32Bits ELSE F32Bits + 1
        d == LongDivision(a.m \div b.m, a.m % b.m, b.m, bits)
    IN  RoundToNearestEven(d.q, d.r # 0, a.e - b.e - bits)

\* a * b in f32: the 48-bit product of the mantissas, in two halves.
MulF32(a, b) ==
    LET half == 2^(F32Bits \div 2)
        a1 == a.m \div half
        a0 == a.m % half
        b1 == b.m \div half
        b0 == b.m % half
        mid == a1 * b0 + a0 * b1
        lowsum == a0 * b0 + (mid % half) * half
        low == lowsum % 2^F32Bits
        high == a1 * b1 + mid \div half + lowsum \div 2^F32Bits
        drop == IF high >= 2^(F32Bits - 1) THEN F32Bits - 1 ELSE F32Bits - 2
        q == high * 2^(F32Bits - drop) + low \div 2^drop
    IN  RoundToNearestEven(q, low % 2^drop # 0, a.e + b.e + drop)

\* `x as u32` for a positive f32 below 2^31: truncation.
as_u32(x) ==
    IF x.e >= 0 THEN x.m * 2^x.e
    ELSE IF 0 - x.e >= F32Bits THEN 0
    ELSE x.m \div 2^(0 - x.e)

\* What resize_image_if_needed does with an image of the given dimensions:
\* returns it as it is, or calls img.resize(width, height, Lanczos3).
Unchanged(img) == [resized |-> FALSE, width |-> img.width, height |-> img.height]
Resize(new_width, new_height) ==
    [resized |-> TRUE, width |-> new_width, height |-> new_height]

resize_image_if_needed(img, settings) ==
    IF settings.max_dimension = <<>> THEN Unchanged(img)
    ELSE LET max_dim == settings.max_dimension[1]
         IN  IF img.width > max_dim \/ img.height > max_dim
             THEN LET aspect_ratio == DivF32(as_f32(img.width), as_f32(img.height))
                  IN  IF img.width > img.height
                      THEN Resize(max_dim,
                                  as_u32(DivF32(as_f32(max_dim), aspect_ratio)))
                      ELSE Resize(as_u32(MulF32(as_f32(max_dim), aspect_ratio)),
                                  max_dim)
             ELSE Unchanged(img)

(***************************************************************************)
(* analyzer.rs: analyze_pdf, one pass over the object table.               *)
(***************************************************************************)
IsName(entry, v) == entry.t = "Name" /\ entry.v = v

\* content.windows(4).any(|w| w == b"BT\n")
HasTextMarker(content) ==
    \E k \in 1..(Len(content) - 3) : SubSeq(content, k, k + 3) = TextBytes

MutAnalyzeAnyXObject(a, obj) ==
    CASE obj.kind = "Stream" ->
           LET image == IsName(obj.dict.Type, "XObject")
               font == IsName(obj.dict.Type, "Font")
               text == obj.dict.Length # <<>> /\ HasTextMarker(obj.content)
               n == Len(obj.content)
           IN  [a EXCEPT !.image_count = @ + (IF image THEN 1 ELSE 0),
                         !.images_size = @ + (IF image THEN n ELSE 0),
                         !.font_count = @ + (IF font THEN 1 ELSE 0),
                         !.fonts_size = @ + (IF font THEN n ELSE 0),
                         !.text_objects = @ + (IF text THEN 1 ELSE 0),
                         !.text_size = @ + (IF text THEN n ELSE 0)]
      [] obj.kind = "Dictionary" ->
           [a EXCEPT !.font_count = @ + (IF IsName(obj.dict.Type, "Font") THEN 1 ELSE 0)]
      [] OTHER -> [a EXCEPT !.other_size = @ + 100]

MutAnalyzeDictionariesAsOther(a, obj) ==
    CASE obj.kind = "Stream" ->
           LET image == IsName(obj.dict.Subtype, "Image")
               font == IsName(obj.dict.Type, "Font")
               text == obj.dict.Length # <<>> /\ HasTextMarker(obj.content)
               n == Len(obj.content)
           IN  [a EXCEPT !.image_count = @ + (IF image THEN 1 ELSE 0),
                         !.images_size = @ + (IF image THEN n ELSE 0),
                         !.font_count = @ + (IF font THEN 1 ELSE 0),
                         !.fonts_size = @ + (IF font THEN n ELSE 0),
                         !.text_objects = @ + (IF text THEN 1 ELSE 0),
                         !.text_size = @ + (IF text THEN n ELSE 0)]
      [] obj.kind = "Dictionary" ->
           IF IsName(obj.dict.Type, "Font")
           THEN [a EXCEPT !.font_count = @ + 1]
           ELSE [a EXCEPT !.other_size = @ + 100]
      [] OTHER -> [a EXCEPT !.other_size = @ + 100]

ZeroAnalysis ==
    [image_count |-> 0, font_count |-> 0, text_objects |-> 0,
     images_size |-> 0, fonts_size |-> 0, text_size |-> 0, other_size |-> 0]

AnalyzeObject(a, obj) ==
    CASE obj.kind = "Stream" ->
           LET image == IsName(obj.dict.Subtype, "Image")
               font == IsName(obj.dict.Type, "Font")
               text == obj.dict.Length # <<>> /\ HasTextMarker(obj.content)
               n == Len(obj.content)
           IN  [a EXCEPT !.image_count = @ + (IF image THEN 1 ELSE 0),
                         !.images_size = @ + (IF image THEN n ELSE 0),
                         !.font_count = @ + (IF font THEN 1 ELSE 0),
                         !.fonts_size = @ + (IF font THEN n ELSE 0),
                         !.text_objects = @ + (IF text THEN 1 ELSE 0),
                         !.text_size = @ + (IF text THEN n ELSE 0)]
      [] obj.kind = "Dictionary" ->
           [a EXCEPT !.font_count = @ + (IF IsName(obj.dict.Type, "Font") THEN 1 ELSE 0)]
      [] OTHER -> [a EXCEPT !.other_size = @ + 100]

RECURSIVE AnalyzeObjects(_, _)
AnalyzeObjects(a, objects) ==
    IF objects = <<>> THEN a
    ELSE AnalyzeObjects(AnalyzeObject(a, Head(objects)), Tail(objects))

analyze_pdf(doc) ==
    LET a == AnalyzeObjects(ZeroAnalysis, doc.objects)
    IN  [total_objects |-> Len(doc.objects),
         image_count |-> a.image_count,
         font_count |-> a.font_count,
         text_objects |-> a.text_objects,
         images_size |-> a.images_size,
         fonts_size |-> a.fonts_size,
         text_size |-> a.text_size,
         other_size |-> a.other_size,
         total_size |-> a.images_size + a.fonts_size + a.text_size + a.other_size]

(***************************************************************************)
(* pdf_reader.rs: validate_pdf. "" is Ok(()), otherwise the error.         *)
(***************************************************************************)
MutValidateAlwaysOk(doc) == ""

MutValidateRootFirst(doc) ==
    IF ~doc.root THEN "PDF document is missing root catalog"
    ELSE IF doc.pages = 0 THEN "PDF document contains no pages"
    ELSE ""

validate_pdf(doc) ==
    IF doc.pages = 0 THEN "PDF document contains no pages"
    ELSE IF ~doc.root THEN "PDF document is missing root catalog"
    ELSE ""

(***************************************************************************)
(* utils.rs: calculate_compression_ratio. The f64 result is kept as the    *)
(* exact fraction num/den in lowest terms with den > 0.                    *)
(***************************************************************************)
Abs(x) == IF x < 0 THEN 0 - x ELSE x

RECURSIVE GCD(_, _)
GCD(a, b) == IF b = 0 THEN a ELSE GCD(b, a % b)

Fraction(num, den) ==
    LET g == GCD(Abs(num), den)
    IN  [num |-> num \div g, den |-> den \div g]

calculate_compression_ratio(original, compressed) ==
    IF original = 0 THEN Fraction(0, 1)
    ELSE Fraction((original - compressed) * 100, original)

\* u64 subtraction a - b: the difference, and whether it overflowed (the value
\* is then diff + 2^64 when overflow checks are off, a panic when they are on).
CheckedSub(a, b) == [overflow |-> a < b, diff |-> a - b]

(***************************************************************************)
(* utils.rs: validate_input_file. "" is Ok(()), otherwise the error.       *)
(* A file on disk: kind ("missing", "dir" or "file"), readable, size in    *)
(* bytes, and content: <<>> when lopdf cannot parse it, else <<doc>>.      *)
(***************************************************************************)
File(kind, readable, size, content) ==
    [kind |-> kind, readable |-> readable, size |-> size, content |-> content]

validate_input_file(f) ==
    IF f.kind = "missing" THEN "File not found"
    ELSE IF f.kind # "file" THEN "Not a file"
    ELSE IF ~f.readable THEN "Permission denied"
    ELSE ""

(***************************************************************************)
(* Paths (std::path). A path is its directory and its file name, the name  *)
(* split at the dots: a.pdf is <<"a", "pdf">>, .tmp is <<"", "tmp">>.      *)
(***************************************************************************)
Path(dir, name) == [dir |-> dir, name |-> name]

file_name(p) == p.name

\* Path::file_stem: the name up to its last dot; the whole name when it has
\* no dot, or only a leading one.
file_stem(p) ==
    IF Len(p.name) = 1 \/ (Len(p.name) = 2 /\ p.name[1] = "")
    THEN p.name
    ELSE SubSeq(p.name, 1, Len(p.name) - 1)

MutAppendExtension(p, extension) == Path(p.dir, p.name \o extension)

\* Path::with_extension: the stem, then the new extension.
with_extension(p, extension) == Path(p.dir, file_stem(p) \o extension)

\* dir.join(name) for a relative one-component name.
join(dir, name) == Path(dir, name)

OptimizedPdf == <<"optimized", "pdf">>          \* "optimized.pdf"

\* main.rs lines 76-80: the output file of one batch input.
output_file(output_dir, file) ==
    IF output_dir # <<>>
    THEN join(output_dir[1], file_name(file))
    ELSE with_extension(file, OptimizedPdf)

\* Where tempfile::NamedTempFile::new() puts its file.
TempPath == Path("tmp", <<"", "tmpXXXXXX">>)

(***************************************************************************)
(* The input spaces.                                                       *)
(***************************************************************************)
Qualities == {50, 90, 200}       \* --quality values tried by the optimize command
SavedSizes == {300, 1200}        \* sizes doc.save may give the output file

AllDocs == {Doc(1, TRUE, os) : os \in SeqsUpTo(ObjectPool, MaxObjs)}

CommandObjects == {JpegImage, FlatePngImage, ContentStream, FontDictionary}
CommandDocs ==
    {Doc(1, TRUE, os) : os \in SeqsUpTo(CommandObjects, MaxObjs)}
        \cup {Doc(0, TRUE, <<JpegImage>>), Doc(1, FALSE, <<JpegImage>>),
              Doc(0, FALSE, <<JpegImage>>)}

MissingFile == File("missing", FALSE, 0, <<>>)
DirectoryFile == File("dir", TRUE, 0, <<>>)
UnreadableFile == File("file", FALSE, 400, <<>>)
CorruptFile == File("file", TRUE, 400, <<>>)

CommandFiles ==
    {MissingFile, DirectoryFile, UnreadableFile, CorruptFile}
        \cup {File("file", TRUE, 400, <<d>>) : d \in CommandDocs}

BatchFiles ==
    {MissingFile, CorruptFile,
     File("file", TRUE, 400, <<Doc(0, TRUE, <<JpegImage>>)>>),
     File("file", TRUE, 1000, <<Doc(1, TRUE, <<FlatePngImage, JpegImage>>)>>)}

\* What the analyze command is run on: every kind of object, and a document
\* with two image streams of 500 and 1500 bytes.
AnalyzeDocs ==
    {Doc(1, TRUE, os) : os \in SeqsUpTo(ObjectPool \cup {PageDictionary}, MaxObjs)}
        \cup {Doc(0, TRUE, <<JpegImage>>), Doc(1, FALSE, <<JpegImage>>),
              Doc(0, FALSE, <<JpegImage>>),
              Doc(1, TRUE, <<SizedImage(500), ContentStream, SizedImage(1500)>>)}
AnalyzeFiles ==
    {MissingFile, CorruptFile} \cup {File("file", TRUE, 400, <<d>>) : d \in AnalyzeDocs}

\* The paths given on the command line.
InputPath == Path("in", <<"a", "pdf">>)
OutputPaths == {Path("out", <<"a", "pdf">>), InputPath}
BatchNames == <<"a", "b", "c", "d">>
BatchPaths(n) == [k \in 1..n |-> Path("in", <<BatchNames[k], "pdf">>)]

\* The batch inputs whose output paths are computed: a name with an extension,
\* without one, with two dots, and with a leading dot only.
PathPool ==
    {Path("in", <<"a", "pdf">>), Path("in", <<"a">>),
     Path("in", <<"a", "optimized", "pdf">>), Path("docs", <<"a", "pdf">>),
     Path("docs", <<"a", "b", "pdf">>), Path("docs", <<"", "pdf">>)}
OutputDirs == {<<>>, <<"out">>}

DefaultThreads == 4          \* cli.rs: default_value of --threads

\* The machine: the thread count rayon picks by itself, and whether
\* build_global() can start the pool that was asked for.
Machine(cpus, build_ok) == [cpus |-> cpus, build_ok |-> build_ok]

\* The files a batch run under different thread counts works on.
ThreadFiles == {CorruptFile, File("file", TRUE, 400, <<Doc(1, TRUE, <<JpegImage>>)>>)}

\* What an http(s) input may answer: <<>> when the request fails, else the
\* file the response body makes.
Responses ==
    {<<>>, <<CorruptFile>>, <<File("file", TRUE, 400, <<Doc(1, TRUE, <<JpegImage>>)>>)>>}

PassSettings ==
    [jpeg_quality : {50, 90}, enable_png_optimization : BOOLEAN,
     max_dimension : {<<>>, <<1024>>}]

(***************************************************************************)
(* The locals of one optimize_pdf / analyze run, and of main().            *)
(***************************************************************************)
IdleRun ==
    [pc |-> "idle",             \* position in the run
     doc |-> EmptyDoc,          \* the loaded Document
     objects |-> <<>>,          \* optimize_images_in_pdf: doc.objects.clone()
     cursor |-> 0,              \* optimize_images_in_pdf: position in objects
     optimized_count |-> 0,     \* optimize_images_in_pdf: optimized_count
     pass |-> "none",           \* what optimize_images_in_pdf returned: "none", "Ok", "Err"
     image_settings |-> <<>>,   \* Option: the ImageSettings of the run
     img |-> <<>>,              \* Option: the dimensions of the decoded image
     resized |-> <<>>,          \* Option: what resize_image_if_needed did with img
     save_options |-> <<>>,     \* Option: the SaveOptions of the run
     analysis |-> <<>>,         \* Option: what analyze_pdf returned
     loaded_size |-> <<>>,      \* Option: the size of the input file when load_pdf read it
     taken |-> 0,               \* how many times a worker took this work item
     enc |-> <<>>,              \* the encoder calls made, in order
     trace |-> <<>>,            \* one entry per optimize_image_stream call, in order
     codec_err |-> FALSE,       \* whether a codec call has returned an error
     steps |-> <<>>,            \* the functions called, in order
     error |-> "",              \* the Err the run returned
     result |-> <<>>]           \* Option: the OptimizationResult returned

NoResult == [tag |-> "none", res |-> <<>>, error |-> "", saved |-> <<>>]

StartMain(n, pc) ==
    [pc |-> pc,
     inputs |-> <<>>,                         \* the input paths given, by index
     url |-> FALSE,                           \* whether the input is an http(s) URL
     response |-> <<>>,                       \* Option: what the URL answers
     staged |-> <<>>,                         \* Option: what was written to the temp file
     output |-> <<>>,                         \* Option: the output path given (optimize)
     output_dir |-> <<>>,                     \* Option: --output-dir (batch)
     threads |-> DefaultThreads,              \* --threads (batch)
     env |-> Machine(1, TRUE),                \* the machine the batch runs on
     pool |-> <<>>,                           \* Option: the size of the rayon pool
     work_items |-> <<>>,                     \* the batch's work items
     results |-> [k \in 1..n |-> NoResult],   \* the batch's results, by input index
     totals |-> <<>>,                         \* Option: the batch summary
     stderr |-> <<>>,                         \* what main wrote to standard error
     exit |-> <<>>]                           \* Option: the process's exit code

InitPreset ==
    /\ cmd = "preset"
    /\ preset \in Presets
    /\ quality \in U8
    /\ files = <<>>
    /\ out = <<>>
    /\ run = <<[IdleRun EXCEPT !.pc = "settings"]>>
    /\ main = StartMain(0, "run")

InitPass ==
    /\ cmd = "pass"
    /\ preset = "Web"
    /\ quality = 80
    /\ files = <<>>
    /\ out = <<>>
    /\ \E d \in AllDocs, s \in PassSettings :
           run = <<[IdleRun EXCEPT !.pc = "images", !.doc = d, !.objects = d.objects,
                                   !.cursor = 1, !.image_settings = <<s>>]>>
    /\ main = StartMain(0, "run")

InitCommand ==
    /\ out = << <<>> >>
    /\ run = <<IdleRun>>
    /\ \/ /\ cmd = "optimize" /\ preset \in Presets /\ quality \in Qualities
          /\ \E f \in CommandFiles : files = <<f>>
          /\ \E o \in OutputPaths :
                main = [StartMain(0, "start") EXCEPT !.inputs = <<InputPath>>,
                                                     !.output = <<o>>]
       \/ /\ cmd = "analyze" /\ preset = "Web" /\ quality = 80
          /\ \E f \in AnalyzeFiles : files = <<f>>
          /\ main = [StartMain(0, "start") EXCEPT !.inputs = <<InputPath>>]

\* The same two commands given an http(s) URL: nothing is at the temporary
\* path yet.
InitUrl ==
    /\ \/ cmd = "optimize" /\ preset \in Presets /\ quality = 80
       \/ cmd = "analyze" /\ preset = "Web" /\ quality = 80
    /\ files = <<MissingFile>>
    /\ out = << <<>> >>
    /\ run = <<IdleRun>>
    /\ \E a \in Responses :
          main = [StartMain(0, "resolve") EXCEPT
                     !.inputs = <<Path("https://host", <<"a", "pdf">>)>>,
                     !.url = TRUE, !.response = a,
                     !.output = IF cmd = "optimize" THEN <<Path("out", <<"a", "pdf">>)>>
                                ELSE <<>>]

InitBatch ==
    /\ cmd = "batch"
    /\ preset = "Web"
    /\ quality = 80
    /\ files \in SeqsUpTo(BatchFiles, MaxFiles)
    /\ out = [k \in 1..Len(files) |-> <<>>]
    /\ run = [k \in 1..Len(files) |-> IdleRun]
    /\ main = [StartMain(Len(files), "start") EXCEPT !.inputs = BatchPaths(Len(files))]

\* A decoded image on its way through resize_image_if_needed, under the
\* settings of each preset.
ImageSides == {1, 3, 1000, 1024, 1025, 1920, 2400, 5000}   \* img.dimensions()

InitResize ==
    /\ cmd = "resize"
    /\ preset \in Presets
    /\ quality = 90
    /\ files = <<>>
    /\ out = <<>>
    /\ \E width, height \in ImageSides :
          run = <<[IdleRun EXCEPT
                     !.pc = "decoded",
                     !.image_settings =
                         <<create_image_settings_for_preset(preset, quality)>>,
                     !.img = <<[width |-> width, height |-> height]>>]>>
    /\ main = StartMain(0, "run")

Init == InitPreset \/ InitPass \/ InitCommand \/ InitUrl \/ InitBatch \/ InitResize

\* A batch under every thread count and machine.
InitBatchThreads ==
    /\ cmd = "batch"
    /\ preset = "Web"
    /\ quality = 80
    /\ files \in SeqsUpTo(ThreadFiles, MaxFiles)
    /\ out = [k \in 1..Len(files) |-> <<>>]
    /\ run = [k \in 1..Len(files) |-> IdleRun]
    /\ \E threads \in 0..MaxThreads, cpus \in 1..MaxCpus, build_ok \in BOOLEAN :
          main = [StartMain(Len(files), "start") EXCEPT
                     !.inputs = BatchPaths(Len(files)),
                     !.threads = threads,
                     !.env = Machine(cpus, build_ok)]

\* A batch over every list of input paths, with and without --output-dir.
\* The files are ones load_pdf rejects: nothing is written at any path.
InitBatchPaths ==
    /\ cmd = "batch"
    /\ preset = "Web"
    /\ quality = 80
    /\ \E inputs \in SeqsUpTo(PathPool, MaxFiles), dir \in OutputDirs :
          /\ files = [k \in 1..Len(inputs) |-> CorruptFile]
          /\ main = [StartMain(Len(inputs), "start") EXCEPT
                        !.inputs = inputs, !.output_dir = dir]
    /\ out = [k \in 1..Len(files) |-> <<>>]
    /\ run = [k \in 1..Len(files) |-> IdleRun]


(***************************************************************************)
(* optimizer.rs: optimize_pdf, one action per call it makes.               *)
(***************************************************************************)
\* The path optimize_pdf reads for input i, and the path it writes.
ResolvedPath(i) == IF main.url THEN TempPath ELSE main.inputs[i]
OutputPath(i) ==
    IF cmd = "batch" THEN main.work_items[i].output_file ELSE main.output[1]

\* The work items a worker is busy with: taken, and the closure not yet
\* returned.
InFlight == {i \in DOMAIN run : run[i].pc \notin {"idle", "queued", "returned", "panicked"}}

MutPoolIsCpus(threads, env) == env.cpus

\* ThreadPoolBuilder::new().num_threads(threads).build_global(): the number of
\* workers main's parallel map runs on. num_threads(0) lets rayon choose, and
\* so does a pool that could not be built (the default global pool is used).
pool_size(threads, env) ==
    IF threads > 0 /\ env.build_ok THEN threads ELSE env.cpus

Running == main.pc \in {"run", "parallel", "unwinding"}

At(i, pc) == Running /\ i \in DOMAIN run /\ run[i].pc = pc

Called(r, f) == [r EXCEPT !.steps = Append(@, f)]

\* `?` on an Err: the run returns the error.
Failed(r, e) == [r EXCEPT !.pc = "err", !.error = e]

\* pdf_reader.rs: load_pdf.
LoadPdf(i) ==
    /\ At(i, "load")
    /\ LET r == Called(run[i], "load_pdf")
       IN  run' = [run EXCEPT ![i] =
               IF files[i].kind = "file" /\ files[i].readable /\ files[i].content # <<>>
               THEN [r EXCEPT !.pc = "validate", !.doc = files[i].content[1],
                              !.loaded_size = <<files[i].size>>]
               ELSE Failed(r, "Failed to load PDF")]
    /\ UNCHANGED <<cmd, preset, quality, files, out, main>>

ValidatePdf(i) ==
    /\ At(i, "validate")
    /\ LET r == Called(run[i], "validate_pdf")
           e == validate_pdf(run[i].doc)
       IN  run' = [run EXCEPT ![i] =
               IF e = "" THEN [r EXCEPT !.pc = "analyze"] ELSE Failed(r, e)]
    /\ UNCHANGED <<cmd, preset, quality, files, out, main>>

AnalyzePdf(i) ==
    /\ At(i, "analyze")
    /\ run' = [run EXCEPT ![i] =
           [Called(@, "analyze_pdf") EXCEPT
               !.analysis = <<analyze_pdf(run[i].doc)>>,
               !.pc = IF cmd = "analyze" THEN "report" ELSE "settings"]]
    /\ UNCHANGED <<cmd, preset, quality, files, out, main>>

\* optimize_pdf lines 66-71: the settings, then the call of the image pass,
\* which clones the object table and starts its loop.
CreateSettings(i) ==
    /\ At(i, "settings")
    /\ cmd # "preset"
    /\ run' = [run EXCEPT ![i] =
           [Called(@, "optimize_images_in_pdf") EXCEPT
               !.image_settings = <<create_image_settings_for_preset(preset, quality)>>,
               !.save_options = <<create_save_options_for_preset(preset)>>,
               !.optimized_count = 0,
               !.objects = run[i].doc.objects,
               !.cursor = 1,
               !.pc = "images"]]
    /\ UNCHANGED <<cmd, preset, quality, files, out, main>>

\* The preset policy applied on its own to (preset, quality).
ApplyPreset ==
    /\ At(1, "settings")
    /\ cmd = "preset"
    /\ run' = [run EXCEPT ![1].image_settings =
                              <<create_image_settings_for_preset(preset, quality)>>,
                          ![1].pc = "ok"]
    /\ UNCHANGED <<cmd, preset, quality, files, out, main>>

\* optimize_images_in_pdf: one iteration of the loop over the cloned table.
OptimizeImage(i) ==
    /\ At(i, "images")
    /\ run[i].cursor <= Len(run[i].objects)
    /\ LET r == run[i]
           k == r.cursor
           obj == r.objects[k]
           next == [r EXCEPT !.cursor = k + 1]
       IN  IF obj.kind = "Stream" /\ is_image_stream(obj)
           THEN \E o \in optimize_image_stream(obj, r.image_settings[1]) :
                   LET entry == [at |-> k, format |-> o.format, tag |-> o.tag,
                                 calls |-> o.calls]
                   IN  run' = [run EXCEPT ![i] =
                           CASE o.tag = "Some" ->
                                  [next EXCEPT !.doc.objects[k] = o.stream,
                                               !.optimized_count = @ + 1,
                                               !.enc = @ \o o.enc,
                                               !.trace = Append(@, entry)]
                             [] o.tag = "None" ->
                                  [next EXCEPT !.codec_err = @ \/ o.failed,
                                               !.trace = Append(@, entry)]
                             [] OTHER ->
                                  [Failed(r, "Failed to optimize image") EXCEPT
                                      !.pass = "Err", !.codec_err = TRUE,
                                      !.trace = Append(@, entry)]]
           ELSE run' = [run EXCEPT ![i] = next]
    /\ UNCHANGED <<cmd, preset, quality, files, out, main>>

\* optimize_images_in_pdf: Ok(optimized_count).
OptimizeImagesReturn(i) ==
    /\ At(i, "images")
    /\ run[i].cursor > Len(run[i].objects)
    /\ run' = [run EXCEPT ![i].pass = "Ok",
                          ![i].pc = IF cmd = "pass" THEN "ok" ELSE "save_compress"]
    /\ UNCHANGED <<cmd, preset, quality, files, out, main>>

\* pdf_writer.rs: save_pdf, first half: doc.compress() when enabled.
SaveCompress(i) ==
    /\ At(i, "save_compress")
    /\ run' = [run EXCEPT ![i] =
           IF run[i].save_options[1].enable_compression
           THEN [Called(@, "compress") EXCEPT !.doc.compressed = TRUE, !.pc = "save_write"]
           ELSE [@ EXCEPT !.pc = "save_write"]]
    /\ UNCHANGED <<cmd, preset, quality, files, out, main>>

\* pdf_writer.rs: save_pdf, second half: doc.save(path), which may fail.
\* files[j] is what is on disk at ResolvedPath(j) and out[j] what the program
\* has written at OutputPath(j): a write at a path shows in each of them that
\* is at that path.
SaveWrite(i) ==
    /\ At(i, "save_write")
    /\ LET r == Called(run[i], "save")
           written(size) == File("file", TRUE, size, <<run[i].doc>>)
       IN  \/ /\ \E size \in SavedSizes :
                    /\ out' = [j \in DOMAIN out |->
                                  IF OutputPath(j) = OutputPath(i) THEN <<size>> ELSE out[j]]
                    /\ files' = [j \in DOMAIN files |->
                                    IF ResolvedPath(j) = OutputPath(i) THEN written(size)
                                    ELSE files[j]]
              /\ run' = [run EXCEPT ![i] = [r EXCEPT !.pc = "sizes"]]
           \/ /\ run' = [run EXCEPT ![i] = Failed(r, "Failed to save PDF")]
              /\ out' = out
              /\ files' = files
    /\ UNCHANGED <<cmd, preset, quality, main>>

\* optimize_pdf lines 88-99: measure both files, build the result.
FileSizes(i) ==
    /\ At(i, "sizes")
    /\ LET original_size == files[i].size
           optimized_size == out[i][1]
       IN  run' = [run EXCEPT ![i] =
               [Called(@, "get_file_size") EXCEPT
                   !.pc = "ok",
                   !.result = <<[original_size |-> original_size,
                                 optimized_size |-> optimized_size,
                                 compression_ratio |->
                                     calculate_compression_ratio(original_size, optimized_size),
                                 images_optimized |-> run[i].optimized_count]>>]]
    /\ UNCHANGED <<cmd, preset, quality, files, out, main>>

(***************************************************************************)
(* main.rs: the optimize and analyze commands.                             *)
(***************************************************************************)
Exit(m, code) == [m EXCEPT !.pc = "exit", !.exit = <<code>>]

\* utils.rs: resolve_input_path on an http(s) URL. A failed request returns
\* the error. Otherwise the body is written to a NamedTempFile and the path
\* is returned; temp_file goes out of scope at the return, and dropping a
\* NamedTempFile deletes its file.
ResolveUrl ==
    /\ cmd \in {"optimize", "analyze"}
    /\ main.pc = "resolve"
    /\ IF main.response = <<>>
       THEN /\ main' = [Exit(main, 1) EXCEPT !.stderr = Append(@, <<1, "request failed">>)]
            /\ files' = files
       ELSE LET written == [files EXCEPT ![1] = main.response[1]]
                dropped == [written EXCEPT ![1] = MissingFile]
            IN  /\ files' = dropped
                /\ main' = [main EXCEPT !.pc = "start", !.staged = <<written[1]>>]
    /\ UNCHANGED <<cmd, preset, quality, out, run>>

\* Lines 22-24 and 34-36: resolve the (local) path, validate the input file.
CommandStart ==
    /\ cmd \in {"optimize", "analyze"}
    /\ main.pc = "start"
    /\ LET e == validate_input_file(files[1])
       IN  IF e = ""
           THEN /\ main' = [main EXCEPT !.pc = "run"]
                /\ run' = [run EXCEPT ![1].pc = "load"]
           ELSE /\ main' = [Exit(main, 1) EXCEPT !.stderr = Append(@, <<1, e>>)]
                /\ run' = run
    /\ UNCHANGED <<cmd, preset, quality, files, out>>

\* Lines 43-47: print the analysis and the file size.
AnalyzeReport ==
    /\ cmd = "analyze"
    /\ At(1, "report")
    /\ run' = [run EXCEPT ![1] = [Called(@, "get_file_size") EXCEPT !.pc = "ok"]]
    /\ UNCHANGED <<cmd, preset, quality, files, out, main>>

\* The command returns: Ok(()) after printing, or the run's error.
CommandFinish ==
    /\ cmd \in {"optimize", "analyze"}
    /\ main.pc = "run"
    /\ run[1].pc \in {"ok", "err"}
    /\ main' = IF run[1].pc = "ok"
               THEN Exit(main, 0)
               ELSE [Exit(main, 1) EXCEPT !.stderr = Append(@, <<1, run[1].error>>)]
    /\ UNCHANGED <<cmd, preset, quality, files, out, run>>

(***************************************************************************)
(* main.rs: the batch command.                                             *)
(***************************************************************************)
\* Lines 57-62: the first input that validate_input_file rejects, 0 when
\* there is none.
MutBatchSkipInvalid(fs) == 0

FirstInvalid(fs) ==
    LET bad == {k \in 1..Len(fs) : validate_input_file(fs[k]) # ""}
    IN  IF bad = {} THEN 0 ELSE CHOOSE k \in bad : \A j \in bad : k <= j

\* Lines 50-82: no files, or an input that fails validation, ends the process
\* with exit(1); otherwise the pool is set up and the work items are queued.
BatchStart ==
    /\ cmd = "batch"
    /\ main.pc = "start"
    /\ LET bad == FirstInvalid(files)
       IN  IF Len(files) = 0
           THEN /\ main' = [Exit(main, 1) EXCEPT
                               !.stderr = Append(@, <<0, "No input files specified">>)]
                /\ run' = run
           ELSE IF bad # 0
           THEN /\ main' = [Exit(main, 1) EXCEPT
                               !.stderr = Append(@, <<bad, validate_input_file(files[bad])>>)]
                /\ run' = run
           ELSE /\ main' = [main EXCEPT
                               !.pc = "parallel",
                               !.pool = <<pool_size(main.threads, main.env)>>,
                               !.stderr =
                                   IF main.env.build_ok THEN @
                                   ELSE Append(@, <<0, "Failed to set thread count, using default">>),
                               !.work_items =
                                   [k \in DOMAIN files |->
                                       [i |-> k, input_file |-> main.inputs[k],
                                        output_file |->
                                            output_file(main.output_dir, main.inputs[k])]]]
                /\ run' = [k \in DOMAIN run |-> [run[k] EXCEPT !.pc = "queued"]]
    /\ UNCHANGED <<cmd, preset, quality, files, out>>

\* Lines 85-88: a free worker of the pool takes work item i, prints its
\* "Processing file" line and calls optimize_pdf.
WorkerStart(i) ==
    /\ cmd = "batch"
    /\ At(i, "queued")
    /\ Cardinality(InFlight) < main.pool[1]
    /\ run' = [run EXCEPT ![i].pc = "load", ![i].taken = @ + 1]
    /\ UNCHANGED <<cmd, preset, quality, files, out, main>>

OkResult(res, saved) == [tag |-> "Ok", res |-> <<res>>, error |-> "", saved |-> <<saved>>]
MutErrResultBlank(e) == [tag |-> "Err", res |-> <<>>, error |-> "", saved |-> <<>>]
ErrResult(e) == [tag |-> "Err", res |-> <<>>, error |-> e, saved |-> <<>>]

\* Lines 88-99: the worker's match on what optimize_pdf returned. The Ok arm
\* prints original_size - optimized_size, a u64 subtraction: when it overflows
\* the worker panics (overflow checks on) or prints the wrapped value (off).
WorkerFinish(i) ==
    /\ cmd = "batch"
    /\ Running
    /\ i \in DOMAIN run
    /\ run[i].pc \in {"ok", "err"}
    /\ IF run[i].pc = "ok"
       THEN LET res == run[i].result[1]
                saved == CheckedSub(res.original_size, res.optimized_size)
            IN  \/ /\ main' = [main EXCEPT !.results[i] = OkResult(res, saved)]
                   /\ run' = [run EXCEPT ![i].pc = "returned"]
                \/ /\ saved.overflow
                   /\ main' = [main EXCEPT !.pc = "unwinding"]
                   /\ run' = [run EXCEPT ![i].pc = "panicked"]
       ELSE /\ main' = [main EXCEPT !.results[i] = ErrResult(run[i].error),
                                    !.stderr = Append(@, <<i, run[i].error>>)]
            /\ run' = [run EXCEPT ![i].pc = "returned"]
    /\ UNCHANGED <<cmd, preset, quality, files, out>>

\* A worker's panic is resumed in main once the parallel map unwinds: the
\* process ends without a summary.
BatchPanic ==
    /\ cmd = "batch"
    /\ main.pc = "unwinding"
    /\ main' = [main EXCEPT !.pc = "panicked", !.exit = <<101>>]
    /\ UNCHANGED <<cmd, preset, quality, files, out, run>>

\* Lines 103-121: the totals, folded over the results in index order.
ZeroTotals ==
    [total_original |-> 0, total_optimized |-> 0, total_images |-> 0, successful_files |-> 0]

MutAddEveryResult(t, result) ==
    IF result.tag = "Ok"
    THEN [total_original |-> t.total_original + result.res[1].original_size,
          total_optimized |-> t.total_optimized + result.res[1].optimized_size,
          total_images |-> t.total_images + result.res[1].images_optimized,
          successful_files |-> t.successful_files + 1]
    ELSE [t EXCEPT !.successful_files = @ + 1]

AddResult(t, result) ==
    IF result.tag = "Ok"
    THEN [total_original |-> t.total_original + result.res[1].original_size,
          total_optimized |-> t.total_optimized + result.res[1].optimized_size,
          total_images |-> t.total_images + result.res[1].images_optimized,
          successful_files |-> t.successful_files + 1]
    ELSE t

RECURSIVE SumResults(_, _, _)
SumResults(t, results, k) ==
    IF k > Len(results) THEN t
    ELSE SumResults(AddResult(t, results[k]), results, k + 1)

BatchTotals(results) ==
    LET t == SumResults(ZeroTotals, results, 1)
    IN  [total_original |-> t.total_original,
         total_optimized |-> t.total_optimized,
         total_images |-> t.total_images,
         successful_files |-> t.successful_files,
         total_ratio |->
             IF t.total_original > 0
             THEN calculate_compression_ratio(t.total_original, t.total_optimized)
             ELSE Fraction(0, 1)]

\* Lines 100-129: every work item has returned; totals and summary.
BatchSummary ==
    /\ cmd = "batch"
    /\ main.pc = "parallel"
    /\ \A k \in DOMAIN main.results : main.results[k].tag # "none"
    /\ main' = [Exit(main, 0) EXCEPT !.totals = <<BatchTotals(main.results)>>]
    /\ UNCHANGED <<cmd, preset, quality, files, out, run>>

\* image_optimizer.rs: the call of resize_image_if_needed on the decoded image.
ResizeImage ==
    /\ At(1, "decoded")
    /\ cmd = "resize"
    /\ run' = [run EXCEPT ![1].resized =
                              <<resize_image_if_needed(run[1].img[1],
                                                       run[1].image_settings[1])>>,
                          ![1].pc = "ok"]
    /\ UNCHANGED <<cmd, preset, quality, files, out, main>>

Next ==
    \/ ApplyPreset
    \/ ResizeImage
    \/ ResolveUrl
    \/ CommandStart
    \/ AnalyzeReport
    \/ CommandFinish
    \/ BatchStart
    \/ BatchPanic
    \/ BatchSummary
    \/ \E i \in 1..MaxFiles :
          \/ WorkerStart(i)
          \/ LoadPdf(i)
          \/ ValidatePdf(i)
          \/ AnalyzePdf(i)
          \/ CreateSettings(i)
          \/ OptimizeImage(i)
          \/ OptimizeImagesReturn(i)
          \/ SaveCompress(i)
          \/ SaveWrite(i)
          \/ FileSizes(i)
          \/ WorkerFinish(i)

Spec == Init /\ [][Next]_vars

\* A batch of two valid files of the same name in two directories, written
\* to one --output-dir.
InitBatchSameName ==
    /\ cmd = "batch"
    /\ preset = "Web"
    /\ quality = 80
    /\ files = [k \in 1..2 |-> File("file", TRUE, 400, <<Doc(1, TRUE, <<JpegImage>>)>>)]
    /\ out = [k \in 1..2 |-> <<>>]
    /\ run = [k \in 1..2 |-> IdleRun]
    /\ main = [StartMain(2, "start") EXCEPT
                  !.inputs = <<Path("in", <<"a", "pdf">>), Path("docs", <<"a", "pdf">>)>>,
                  !.output_dir = <<"out">>]

\* The batch command alone.
NextBatch ==
    \/ BatchStart
    \/ BatchPanic
    \/ BatchSummary
    \/ \E i \in 1..MaxFiles :
          \/ WorkerStart(i)
          \/ LoadPdf(i)
          \/ ValidatePdf(i)
          \/ AnalyzePdf(i)
          \/ CreateSettings(i)
          \/ OptimizeImage(i)
          \/ OptimizeImagesReturn(i)
          \/ SaveCompress(i)
          \/ SaveWrite(i)
          \/ FileSizes(i)
          \/ WorkerFinish(i)

SpecBatch == (InitBatchThreads \/ InitBatchPaths \/ InitBatchSameName) /\ [][NextBatch]_vars

(***************************************************************************)
(* pdf-renamer/src/main.rs. Strings are sequences of one-character         *)
(* strings. In the renamer's runs `files` is the directory, a function     *)
(* from file names to the files under them, and `main` is the state of     *)
(* batch_rename_pdfs.                                                      *)
(***************************************************************************)
MaxPdfs == 3        \* PDFs in the directory

NameLimit == 100    \* make_concise_filename: chars().take(100)

Whitespace == {" "}

\* Of the characters used in titles, those char::is_alphanumeric rejects.
NotAlphanumeric == {" ", "-", "_", "/", "."}

Take(s, n) == SubSeq(s, 1, Min(Len(s), n))

RECURSIVE TrimStart(_)
TrimStart(s) ==
    IF s # <<>> /\ Head(s) \in Whitespace THEN TrimStart(Tail(s)) ELSE s

RECURSIVE TrimEnd(_)
TrimEnd(s) ==
    IF s # <<>> /\ s[Len(s)] \in Whitespace
    THEN TrimEnd(SubSeq(s, 1, Len(s) - 1))
    ELSE s

trim(s) == TrimEnd(TrimStart(s))

\* The byte offsets at which sep occurs in s; str::find returns the least.
Occurrences(s, sep) ==
    {pos \in 0..(Len(s) - Len(sep)) : SubSeq(s, pos + 1, pos + Len(sep)) = sep}

separators ==
    << <<" ", "-", " ">>, <<" ", "b", "y", " ">>,
       <<" ", "_", "b", "y", " ">>, <<"_", "b", "y", " ">> >>

\* The loop over the separators: cut at the first separator found, then break.
RECURSIVE CutAtSeparator(_, _)
CutAtSeparator(concise, k) ==
    IF k > Len(separators) THEN concise
    ELSE LET found == Occurrences(concise, separators[k])
         IN  IF found # {}
             THEN SubSeq(concise, 1, CHOOSE pos \in found : \A q \in found : pos <= q)
             ELSE CutAtSeparator(concise, k + 1)

\* concise.replace(|c| !c.is_alphanumeric() && c != ' ' && c != '-' && c != '_', "_")
RECURSIVE ReplaceSpecial(_)
ReplaceSpecial(s) ==
    IF s = <<>> THEN <<>>
    ELSE <<IF Head(s) \in NotAlphanumeric \ {" ", "-", "_"} THEN "_" ELSE Head(s)>>
             \o ReplaceSpecial(Tail(s))

make_concise_filename(name) ==
    trim(Take(ReplaceSpecial(CutAtSeparator(Take(name, NameLimit), 1)), NameLimit))

\* Path::file_stem and Path::extension of a file name: split at the last dot,
\* unless the name has no dot or only a leading one.
LastDot(name) ==
    LET dots == {k \in DOMAIN name : name[k] = "." /\ k > 1}
    IN  IF dots = {} THEN 0 ELSE CHOOSE k \in dots : \A q \in dots : k >= q

name_file_stem(name) ==
    IF LastDot(name) = 0 THEN name ELSE SubSeq(name, 1, LastDot(name) - 1)

\* An Option.
name_extension(name) ==
    IF LastDot(name) = 0 THEN <<>>
    ELSE <<SubSeq(name, LastDot(name) + 1, Len(name))>>

Pdf == <<"p", "d", "f">>

\* format!("{}.pdf", concise_name)
DotPdf(concise_name) == concise_name \o <<".">> \o Pdf

Untitled == <<"U", "n", "t", "i", "t", "l", "e", "d">>

\* The decimal form of a count below 10.
Decimal(n) == <<<<"0", "1", "2", "3", "4", "5", "6", "7", "8", "9">>[n + 1]>>

\* A loaded Document, as far as the renamer reads it: the Info dictionary's
\* Title string and the text of the first page, each an Option.
RenamerDoc(title, text) == [valid |-> TRUE, title |-> title, text |-> text]

NotAPdf == [valid |-> FALSE, title |-> <<>>, text |-> <<>>]

extract_title(doc) ==
    IF doc.title # <<>> /\ trim(doc.title[1]) # <<>> THEN doc.title ELSE <<>>

extract_concise_content(doc) ==
    IF doc.text # <<>> /\ trim(doc.text[1]) # <<>> THEN <<trim(doc.text[1])>> ELSE <<>>

\* extract_title(&doc).or_else(|| extract_concise_content(&doc))
\*     .unwrap_or_else(|| "Untitled".to_string())
TitleOf(doc) ==
    IF extract_title(doc) # <<>> THEN extract_title(doc)[1]
    ELSE IF extract_concise_content(doc) # <<>> THEN extract_concise_content(doc)[1]
    ELSE Untitled

\* The closure of the parallel map: one proposed rename.
ProposedRename(path, doc) ==
    [path |-> path, new_name |-> DotPdf(make_concise_filename(TitleOf(doc)))]

\* The first loop of the duplicate handling: name_count[name].
NameCount(proposed_renames, name) ==
    Cardinality({k \in DOMAIN proposed_renames : proposed_renames[k].new_name = name})

\* The second loop: entry k and after, with used_names as it stands.
RECURSIVE NumberDuplicates(_, _, _, _)
NumberDuplicates(proposed_renames, name_count, used_names, k) ==
    IF k > Len(proposed_renames) THEN proposed_renames
    ELSE LET new_name == proposed_renames[k].new_name
         IN  IF name_count[new_name] > 1
             THEN LET count == (IF new_name \in DOMAIN used_names
                                THEN used_names[new_name] ELSE 0) + 1
                      used == [n \in DOMAIN used_names \cup {new_name} |->
                                  IF n = new_name THEN count ELSE used_names[n]]
                      extension == IF name_extension(new_name) = <<>> THEN <<>>
                                   ELSE name_extension(new_name)[1]
                      numbered == name_file_stem(new_name) \o <<"_">>
                                      \o Decimal(count - 1) \o <<".">> \o extension
                  IN  NumberDuplicates(
                          IF count > 1
                          THEN [proposed_renames EXCEPT ![k].new_name = numbered]
                          ELSE proposed_renames,
                          name_count, used, k + 1)
             ELSE NumberDuplicates(proposed_renames, name_count, used_names, k + 1)

HandleDuplicates(proposed_renames) ==
    LET names == {proposed_renames[k].new_name : k \in DOMAIN proposed_renames}
        name_count == [n \in names |-> NameCount(proposed_renames, n)]
    IN  NumberDuplicates(proposed_renames, name_count, <<>>, 1)

\* fs::rename inside one directory: the file under `from` is afterwards under
\* `to`, replacing what was there.
fs_rename(dir, from, to) ==
    IF from = to THEN dir
    ELSE [n \in (DOMAIN dir \ {from}) \cup {to} |-> IF n = to THEN dir[from] ELSE dir[n]]

\* The entries of a directory that the read_dir filter keeps.
PdfEntries(dir) == {n \in DOMAIN dir : name_extension(n) = <<Pdf>>}

RECURSIVE Orders(_)
Orders(S) ==
    IF S = {} THEN {<<>>}
    ELSE UNION {{<<x>> \o rest : rest \in Orders(S \ {x})} : x \in S}

\* The directories and documents tried.
DirNames ==
    {DotPdf(<<"a">>), DotPdf(<<"b">>), DotPdf(<<"a", "_", "1">>), DotPdf(<<"x">>)}

NotesTxt == <<"n", ".", "t", "x", "t">>

RenamerDocs ==
    {RenamerDoc(<< <<"a">> >>, <<>>),
     RenamerDoc(<< <<"a", " ", "-", " ", "b">> >>, <<>>),
     RenamerDoc(<< <<"a", "/", "1">> >>, <<>>),
     RenamerDoc(<< <<" ">> >>, << <<" ", "b">> >>),
     RenamerDoc(<<>>, <<>>),
     NotAPdf}

InitRenamer ==
    /\ cmd = "rename"
    /\ preset = ""
    /\ quality = 0
    /\ out = <<>>
    /\ run = <<>>
    /\ \E names \in SUBSET DirNames :
          /\ Cardinality(names) <= MaxPdfs
          /\ \E docs \in [names -> RenamerDocs] :
                files = [n \in names \cup {NotesTxt} |->
                            [id |-> n, doc |-> IF n \in names THEN docs[n] ELSE NotAPdf]]
    /\ \E dry_run \in BOOLEAN :
          main = [pc |-> "read_dir",
                  dry_run |-> dry_run,        \* Args.dry_run
                  before |-> files,           \* the directory as it was found
                  pdf_paths |-> <<>>,
                  proposed_renames |-> <<>>,
                  cursor |-> 0,               \* position in the rename loop
                  overwritten |-> <<>>,       \* the renames that replaced a file
                  stdout |-> <<>>]

\* fs::read_dir yields the entries in an order of the file system's choosing.
ReadDir ==
    /\ cmd = "rename"
    /\ main.pc = "read_dir"
    /\ \E pdf_paths \in Orders(PdfEntries(files)) :
          main' = [main EXCEPT !.pdf_paths = pdf_paths, !.pc = "propose"]
    /\ UNCHANGED <<cmd, preset, quality, files, out, run>>

\* The parallel map; Document::load(path).expect(..) panics on a bad file.
ProposeRenames ==
    /\ cmd = "rename"
    /\ main.pc = "propose"
    /\ IF \E k \in DOMAIN main.pdf_paths : ~files[main.pdf_paths[k]].doc.valid
       THEN main' = [main EXCEPT !.pc = "panicked"]
       ELSE main' = [main EXCEPT
                !.proposed_renames =
                    [k \in DOMAIN main.pdf_paths |->
                        ProposedRename(main.pdf_paths[k], files[main.pdf_paths[k]].doc)],
                !.pc = "duplicates"]
    /\ UNCHANGED <<cmd, preset, quality, files, out, run>>

NumberProposedRenames ==
    /\ cmd = "rename"
    /\ main.pc = "duplicates"
    /\ main' = [main EXCEPT !.proposed_renames = HandleDuplicates(@),
                            !.cursor = 1,
                            !.pc = "rename"]
    /\ UNCHANGED <<cmd, preset, quality, files, out, run>>

\* One turn of the rename loop.
RenameNext ==
    /\ cmd = "rename"
    /\ main.pc = "rename"
    /\ main.cursor <= Len(main.proposed_renames)
    /\ LET path == main.proposed_renames[main.cursor].path
           new_path == main.proposed_renames[main.cursor].new_name
       IN  IF main.dry_run
           THEN /\ main' = [main EXCEPT
                       !.cursor = @ + 1,
                       !.stdout = Append(@, <<"Would rename", path, new_path>>)]
                /\ files' = files
           ELSE /\ main' = [main EXCEPT
                       !.cursor = @ + 1,
                       !.stdout = Append(@, <<"Renamed", path, new_path>>),
                       !.overwritten =
                           IF new_path # path /\ new_path \in DOMAIN files
                           THEN Append(@, [path |-> new_path, id |-> files[new_path].id])
                           ELSE @]
                /\ files' = fs_rename(files, path, new_path)
    /\ UNCHANGED <<cmd, preset, quality, out, run>>

BatchRenameReturn ==
    /\ cmd = "rename"
    /\ main.pc = "rename"
    /\ main.cursor > Len(main.proposed_renames)
    /\ main' = [main EXCEPT !.pc = "done"]
    /\ UNCHANGED <<cmd, preset, quality, files, out, run>>

NextRenamer ==
    \/ ReadDir
    \/ ProposeRenames
    \/ NumberProposedRenames
    \/ RenameNext
    \/ BatchRenameReturn

SpecRenamer == InitRenamer /\ [][NextRenamer]_vars

(***************************************************************************)
(* Properties.                                                             *)
(***************************************************************************)
Runs == DOMAIN run

\* The table of spec section 4.2, row by row.
TableRow(p, q) ==
    [jpeg_quality |->
         CASE p = "Web" -> q
           [] p = "Print" -> CHOOSE m \in {q, 85} : m >= q /\ m >= 85
           [] p = "Archive" -> q
           [] p = "Maximum" -> CHOOSE m \in {q, 70} : m <= q /\ m <= 70,
     enable_png_optimization |-> TRUE,
     max_dimension |->
         CASE p = "Web" -> <<1920>>
           [] p = "Print" -> <<>>
           [] p = "Archive" -> <<>>
           [] p = "Maximum" -> <<1024>>]

\* C1: for every preset and every quality in 0..100, the settings derived from
\* (preset, quality) are exactly the row of the table: Web (q, on, 1920),
\* Print (max(q, 85), on, none), Archive (q, on, none), Maximum (min(q, 70), on, 1024).
C1_PresetTable ==
    \A i \in Runs :
        (/\ cmd \in {"preset", "optimize", "batch"}
         /\ run[i].image_settings # <<>>
         /\ quality \in 0..100)
            => run[i].image_settings[1] = TableRow(preset, quality)

C1_Witness ==
    /\ cmd = "preset"
    /\ preset = "Print"
    /\ quality = 50
    /\ run[1].image_settings # <<>>
    /\ run[1].image_settings[1].jpeg_quality = 85
    /\ run[1].image_settings[1].max_dimension = <<>>

\* The streams the pass has replaced so far: the entries of the document that
\* differ from the table the pass cloned on entry.
Replaced(r) ==
    {k \in DOMAIN r.objects : k <= Len(r.doc.objects) /\ r.doc.objects[k] # r.objects[k]}

InPass(r) == r.pc = "images" \/ r.pass # "none"

\* C2: every stream whose payload the image pass replaced is stored in the
\* document with Length equal to the byte length of its new payload, during
\* the pass and after it has returned.
C2_LengthMatchesPayload ==
    \A i \in Runs :
        InPass(run[i]) =>
            \A k \in Replaced(run[i]) :
                /\ run[i].doc.objects[k].kind = "Stream"
                /\ run[i].doc.objects[k].dict.Length
                       = <<Len(run[i].doc.objects[k].content)>>

C2_Witness ==
    \E i \in Runs :
        /\ run[i].pass = "Ok"
        /\ \E k \in Replaced(run[i]) :
              /\ Len(run[i].doc.objects[k].content) # Len(run[i].objects[k].content)
              /\ run[i].objects[k].dict.Length = <<Len(run[i].objects[k].content)>>
              /\ run[i].doc.objects[k].dict.Length = <<Len(run[i].doc.objects[k].content)>>

\* No stream of the table has Subtype equal to the name Image.
NoImageStream(objects) ==
    \A k \in DOMAIN objects :
        ~(/\ objects[k].kind = "Stream"
          /\ objects[k].dict.Subtype = Name("Image"))

\* C3: on a document with no stream of Subtype Image the pass changes no
\* object, never fails, and returns 0, under every ImageSettings.
C3_NoImagesNoChange ==
    \A i \in Runs :
        (InPass(run[i]) /\ NoImageStream(run[i].objects)) =>
            /\ run[i].pass # "Err"
            /\ run[i].optimized_count = 0
            /\ run[i].doc.objects = run[i].objects

C3_Witness ==
    /\ cmd = "pass"
    /\ run[1].pass = "Ok"
    /\ NoImageStream(run[1].objects)
    /\ run[1].objects = <<FormStream, ContentStream>>
    /\ run[1].optimized_count = 0
    /\ run[1].doc.objects = run[1].objects

\* The steps of work item i: its worker's, and those of its optimize_pdf call.
FileStep(i) ==
    \/ WorkerStart(i)
    \/ LoadPdf(i)
    \/ ValidatePdf(i)
    \/ AnalyzePdf(i)
    \/ CreateSettings(i)
    \/ OptimizeImage(i)
    \/ OptimizeImagesReturn(i)
    \/ SaveCompress(i)
    \/ SaveWrite(i)
    \/ FileSizes(i)
    \/ WorkerFinish(i)

\* validate_input_file accepts the file: it exists, is a file, can be opened.
Usable(f) == f.kind = "file" /\ f.readable

\* While the parallel map runs, every work item that has not returned can step.
NoneBlocked ==
    (cmd = "batch" /\ main.pc = "parallel") =>
        \A j \in Runs : run[j].pc # "returned" => ENABLED FileStep(j)

RECURSIVE SumOver(_, _)
SumOver(S, f) ==
    IF S = {} THEN 0
    ELSE LET x == CHOOSE y \in S : TRUE
         IN  f[x] + SumOver(S \ {x}, f)

\* The work items whose optimize_pdf returned Ok.
Succeeded == {i \in Runs : run[i].result # <<>>}

PipelineOrder ==
    <<"load_pdf", "validate_pdf", "analyze_pdf", "optimize_images_in_pdf",
      "compress", "save", "get_file_size">>

IsPrefix(s, t) == Len(s) <= Len(t) /\ s = SubSeq(t, 1, Len(s))

\* The document stored in input file i fails validation.
Invalid(i) ==
    /\ files[i].content # <<>>
    /\ files[i].content[1].pages = 0 \/ ~files[i].content[1].root

\* C6: optimize_pdf calls load, validate, analyze, optimize images, compress,
\* save in that order, each at most once; when the document has no pages or no
\* Root the run ends with an error right after validation, with the document
\* as loaded and no output file written.
C6_StrictOrder ==
    cmd \in {"optimize", "batch"} =>
        \A i \in Runs :
            /\ IsPrefix(run[i].steps, PipelineOrder)
            /\ Invalid(i) =>
                  /\ Len(run[i].steps) <= 2
                  /\ out[i] = <<>>
                  /\ run[i].doc \in {EmptyDoc, files[i].content[1]}
                  /\ Len(run[i].steps) = 2 =>
                        /\ run[i].pc \in {"err", "returned"}
                        /\ run[i].error # ""

C6_Witness ==
    /\ cmd = "optimize"
    /\ Invalid(1)
    /\ run[1].steps = <<"load_pdf", "validate_pdf">>
    /\ run[1].error = "PDF document is missing root catalog"
    /\ main.exit = <<1>>
    /\ out[1] = <<>>

\* C7: a document with no pages fails validation with the "no pages" error,
\* also when its trailer has no Root, and in the optimize, analyze and batch
\* commands nothing is called after validate_pdf: no analysis, no image pass,
\* no save.
C7_NoPagesFailsFirst ==
    cmd \in {"optimize", "analyze", "batch"} =>
        \A i \in Runs :
            (/\ files[i].content # <<>>
             /\ files[i].content[1].pages = 0
             /\ Len(run[i].steps) >= 2)
                => /\ run[i].error = "PDF document contains no pages"
                   /\ run[i].steps = <<"load_pdf", "validate_pdf">>
                   /\ run[i].analysis = <<>>
                   /\ run[i].pass = "none"
                   /\ out[i] = <<>>

C7_Witness ==
    /\ cmd = "analyze"
    /\ files[1].content # <<>>
    /\ files[1].content[1].pages = 0
    /\ ~files[1].content[1].root
    /\ run[1].error = "PDF document contains no pages"
    /\ main.exit = <<1>>

\* C8: when a codec call fails on an image stream, optimize_images_in_pdf and
\* optimize_pdf return the error: the loop stops at that stream (no later
\* object is replaced), nothing is saved and no result is built; in a batch
\* the other work items keep running, and the summary holds an Err for this
\* file and every other file's own result.
C8_CodecFailureAbortsFile ==
    \A i \in Runs :
        run[i].codec_err =>
            /\ run[i].pass = "Err"
            /\ run[i].pc \in {"err", "returned"}
            /\ run[i].error = "Failed to optimize image"
            /\ run[i].result = <<>>
            /\ i \in DOMAIN out => out[i] = <<>>
            /\ \A n \in DOMAIN run[i].steps : run[i].steps[n] \notin {"compress", "save"}
            /\ \A k \in DOMAIN run[i].objects :
                  k >= run[i].cursor => run[i].doc.objects[k] = run[i].objects[k]
            /\ NoneBlocked
            /\ (cmd = "batch" /\ main.totals # <<>>) =>
                  /\ main.results[i].tag = "Err"
                  /\ \A j \in Runs :
                        run[j].result # <<>> =>
                            /\ main.results[j].tag = "Ok"
                            /\ main.results[j].res = run[j].result

C8_Witness ==
    /\ cmd = "batch"
    /\ Len(files) = 2
    /\ run[1].codec_err
    /\ run[1].cursor = 1
    /\ run[1].objects = <<FlatePngImage, JpegImage>>
    /\ run[1].doc.objects = run[1].objects
    /\ main.totals # <<>>
    /\ main.results[1].tag = "Err"
    /\ main.results[2].tag = "Ok"
    /\ out[2] # <<>>

\* C9 (as claimed): every JPEG re-encoding is given the quality held in the
\* run's ImageSettings.
C9_EncoderGetsSettingsQuality ==
    \A i \in Runs :
        \A n \in DOMAIN run[i].enc :
            run[i].enc[n].quality = <<run[i].image_settings[1].jpeg_quality>>

\* C10 (as claimed): for every preset and every u8 quality the optimize command
\* accepts, the derived target quality lies in 0..100.
C10_QualityInRange ==
    \A i \in Runs :
        (cmd \in {"preset", "optimize"} /\ run[i].image_settings # <<>>)
            => run[i].image_settings[1].jpeg_quality \in 0..100

(***************************************************************************)
(* The analysis report.                                                    *)
(***************************************************************************)
\* analyze_pdf has just returned in run i: nothing has touched the document
\* or the input file since.
Analyzed(i) == run[i].analysis # <<>> /\ run[i].pc \in {"report", "settings"}

\* The object table of the file run i loaded.
Loaded(i) == files[i].content[1].objects

ImageStreams(objects) ==
    {k \in DOMAIN objects :
        objects[k].kind = "Stream" /\ objects[k].dict.Subtype = Name("Image")}

\* C11: image_count is the number of streams whose Subtype is the name Image,
\* images_size is the sum of their payload lengths, and the analysis leaves
\* the document as it was loaded.
C11_ImageCountAndSize ==
    \A i \in Runs :
        Analyzed(i) =>
            LET images == ImageStreams(Loaded(i))
            IN  /\ run[i].analysis[1].image_count = Cardinality(images)
                /\ run[i].analysis[1].images_size =
                       SumOver(images, [k \in images |-> Len(Loaded(i)[k].content)])
                /\ run[i].doc = files[i].content[1]

C11_Witness ==
    \E i \in Runs :
        /\ Analyzed(i)
        /\ cmd = "analyze"
        /\ Cardinality(ImageStreams(Loaded(i))) = 2
        /\ Len(Loaded(i)) = 3
        /\ run[i].analysis[1].image_count = 2
        /\ run[i].analysis[1].images_size = 2000

\* Whether the payload holds the bytes of marker at some offset.
ContainsBytes(content, marker) ==
    \E k \in 1..(Len(content) - Len(marker) + 1) :
        SubSeq(content, k, k + Len(marker) - 1) = marker

\* C12: text_objects is the number of streams that have a Length attribute
\* and whose payload holds the three bytes 'B', 'T', line feed at some offset.
C12_TextIffLengthAndMarker ==
    \A i \in Runs :
        Analyzed(i) =>
            run[i].analysis[1].text_objects =
                Cardinality({k \in DOMAIN Loaded(i) :
                    /\ Loaded(i)[k].kind = "Stream"
                    /\ Loaded(i)[k].dict.Length # <<>>
                    /\ ContainsBytes(Loaded(i)[k].content, TextBytes)})

\* The objects the analysis counted in none of its three categories.
Unclassified(objects) ==
    {k \in DOMAIN objects :
        LET a == AnalyzeObject(ZeroAnalysis, objects[k])
        IN  a.image_count = 0 /\ a.font_count = 0 /\ a.text_objects = 0}

SumOfCategories(a) == a.images_size + a.fonts_size + a.text_size + a.other_size

\* C13 as stated: other_size is 100 times the number of objects counted as
\* neither image, font nor text, and total_size is the sum of the four sizes.
C13_EveryUnclassifiedCosts100 ==
    \A i \in Runs :
        Analyzed(i) =>
            /\ run[i].analysis[1].other_size = 100 * Cardinality(Unclassified(Loaded(i)))
            /\ run[i].analysis[1].total_size = SumOfCategories(run[i].analysis[1])

\* C13 amended: other_size is 100 times the number of objects that are
\* neither a stream nor a dictionary; streams and dictionaries add nothing to
\* it, whatever their category; total_size is the sum of the four sizes.
C13_OnlyOtherKindsCost100 ==
    \A i \in Runs :
        Analyzed(i) =>
            /\ run[i].analysis[1].other_size =
                   100 * Cardinality({k \in DOMAIN Loaded(i) :
                             Loaded(i)[k].kind \notin {"Stream", "Dictionary"}})
            /\ run[i].analysis[1].total_size = SumOfCategories(run[i].analysis[1])

C13_Witness ==
    \E i \in Runs :
        /\ Analyzed(i)
        /\ Loaded(i) = <<OtherObject, PageDictionary>>
        /\ run[i].analysis[1].other_size = 100
        /\ run[i].analysis[1].total_size = 100

(***************************************************************************)
(* Format detection and the lossless path.                                 *)
(***************************************************************************)
\* The image streams of the cloned table the loop of run r has gone through.
Visited(r) ==
    {k \in DOMAIN r.objects :
        /\ k < r.cursor \/ (k = r.cursor /\ r.pass = "Err")
        /\ r.objects[k].kind = "Stream"
        /\ r.objects[k].dict.Subtype = Name("Image")}

\* C14: a stream whose Filter is the name DCTDecode is detected as JPEG
\* whatever its payload; otherwise a payload that starts with the PNG
\* signature is detected as PNG, whatever the filter or without one;
\* otherwise the stream is detected as JPEG. Detection never fails: every
\* image stream the loop reached has its format, and an Err outcome comes
\* with a library call that was made.
C14_DetectionChain ==
    \A i \in Runs :
        InPass(run[i]) =>
            /\ {run[i].trace[n].at : n \in DOMAIN run[i].trace} = Visited(run[i])
            /\ \A n \in DOMAIN run[i].trace :
                  LET stream == run[i].objects[run[i].trace[n].at]
                  IN  /\ run[i].trace[n].format =
                             IF stream.dict.Filter = Name("DCTDecode") THEN "Jpeg"
                             ELSE IF /\ Len(stream.content) >= Len(PngSignature)
                                     /\ \A b \in DOMAIN PngSignature :
                                           stream.content[b] = PngSignature[b]
                                  THEN "Png"
                             ELSE "Jpeg"
                      /\ run[i].trace[n].tag = "Err" => run[i].trace[n].calls # <<>>

C14_Witness ==
    \E i \in Runs :
        /\ run[i].pass = "Ok"
        /\ run[i].objects = <<DctPngImage, LzwPngImage>>
        /\ Len(run[i].trace) = 2
        /\ run[i].trace[1].format = "Jpeg"
        /\ run[i].trace[2].format = "Png"

\* C15: for a stream detected as PNG, when enable_png_optimization is set
\* the only library call is the recompressor on the stream's original
\* payload (no decode, no resize, with or without a max_dimension), and on
\* its success the payload is replaced by its result and the stream is
\* counted; when the flag is not set no call is made, the stream stays as it
\* was and is not counted.
C15_PngLosslessOnly ==
    \A i \in Runs :
        InPass(run[i]) =>
            /\ run[i].optimized_count =
                   Cardinality({n \in DOMAIN run[i].trace : run[i].trace[n].tag = "Some"})
            /\ \A n \in DOMAIN run[i].trace :
                  LET e == run[i].trace[n]
                      original == run[i].objects[e.at]
                      stored == run[i].doc.objects[e.at]
                  IN  e.format = "Png" =>
                        IF run[i].image_settings[1].enable_png_optimization
                        THEN /\ Len(e.calls) = 1
                             /\ e.calls[1].fn = "optimize_from_memory"
                             /\ e.calls[1].arg = original.content
                             /\ e.tag \in {"Some", "Err"}
                             /\ e.tag = "Some" =>
                                   /\ stored.content \in PngOutputs
                                   /\ stored = create_optimized_stream(original, stored.content)
                             /\ e.tag = "Err" => stored = original
                        ELSE /\ e.calls = <<>>
                             /\ e.tag = "None"
                             /\ stored = original

C15_Witness ==
    \E i \in Runs :
        /\ run[i].pass = "Ok"
        /\ run[i].image_settings[1].enable_png_optimization
        /\ run[i].image_settings[1].max_dimension = <<1024>>
        /\ run[i].objects = <<BarePngImage>>
        /\ run[i].trace[1].tag = "Some"
        /\ run[i].doc.objects[1].content \in PngOutputs
        /\ run[i].optimized_count = 1

(***************************************************************************)
(* The sizes reported, and the staging of a URL input.                     *)
(***************************************************************************)
\* C16 (as claimed): in every result optimize_pdf returns, original_size is
\* the size the input file had on disk when it was loaded, optimized_size is
\* the size of the written output file, and compression_ratio is
\* (original - optimized) / original * 100 of these two, whatever the input
\* and output paths are.
C16_SizesOfFileReadAndFileWritten ==
    \A i \in Runs :
        run[i].result # <<>> =>
            /\ run[i].result[1].original_size = run[i].loaded_size[1]
            /\ run[i].result[1].optimized_size = out[i][1]
            /\ run[i].result[1].compression_ratio =
                   calculate_compression_ratio(run[i].loaded_size[1], out[i][1])

\* C17 (as claimed): once resolve_input_path has returned for a URL whose
\* request succeeded, the file at the returned path exists and holds the
\* fetched bytes, while validate_input_file and load_pdf run.
C17_StagedFileStillThere ==
    (main.url /\ main.staged # <<>>) => files[1] = main.staged[1]

(***************************************************************************)
(* The batch: output paths, reporting, the worker pool.                    *)
(***************************************************************************)
\* A file name has an extension when it has a dot that is not its first
\* character.
HasExtension(name) == Len(name) >= 3 \/ (Len(name) = 2 /\ name[1] # "")

WithoutExtension(name) ==
    IF HasExtension(name) THEN [k \in 1..(Len(name) - 1) |-> name[k]] ELSE name

\* C18 (as claimed): the output path of input k is output_dir joined with
\* the input's file name when --output-dir is given, and otherwise the input
\* path with ".optimized.pdf" appended, in the input's directory.
C18_OutputDirOrSuffixAppended ==
    cmd = "batch" =>
        \A k \in DOMAIN main.work_items :
            LET input == main.inputs[k]
                output == main.work_items[k].output_file
            IN  IF main.output_dir # <<>>
                THEN output.dir = main.output_dir[1] /\ output.name = input.name
                ELSE output.dir = input.dir
                        /\ output.name = input.name \o <<"optimized", "pdf">>

\* C18 amended: the output path of input k is output_dir joined with the
\* input's file name when --output-dir is given, and otherwise the input
\* path with its extension replaced by "optimized.pdf" (a name without an
\* extension gets ".optimized.pdf" appended), in the input's directory.
C18_OutputDirOrExtensionReplaced ==
    cmd = "batch" =>
        \A k \in DOMAIN main.work_items :
            LET input == main.inputs[k]
                output == main.work_items[k].output_file
            IN  /\ main.work_items[k].i = k
                /\ main.work_items[k].input_file = input
                /\ IF main.output_dir # <<>>
                   THEN output.dir = main.output_dir[1] /\ output.name = input.name
                   ELSE output.dir = input.dir
                           /\ output.name
                                  = WithoutExtension(input.name) \o <<"optimized", "pdf">>

C18_Witness ==
    /\ cmd = "batch"
    /\ main.output_dir = <<>>
    /\ Len(main.work_items) = 2
    /\ main.inputs = <<Path("in", <<"a", "pdf">>), Path("docs", <<"a", "b", "pdf">>)>>
    /\ main.work_items[1].output_file = Path("in", <<"a", "optimized", "pdf">>)
    /\ main.work_items[2].output_file = Path("docs", <<"a", "b", "optimized", "pdf">>)

\* The "Saved" or "Failed" line of file i is on the terminal: the worker
\* prints it in the step in which its closure returns the result.
Reported(i) == main.results[i].tag # "none"

\* The entries of standard error that are about a file.
FailedLines == {n \in DOMAIN main.stderr : main.stderr[n][1] # 0}

\* C19 (as claimed): the per-file lines come in input-index order: nothing
\* is reported for file j before file i when i < j; position k of the results
\* holds the result of input k; the totals exist only once every worker has
\* finished.
C19_ReportedInIndexOrder ==
    cmd = "batch" =>
        /\ \A i, j \in DOMAIN main.results : (i < j /\ Reported(j)) => Reported(i)
        /\ \A m, n \in FailedLines : m < n => main.stderr[m][1] < main.stderr[n][1]
        /\ \A k \in DOMAIN main.results :
              Reported(k) => main.results[k].res = run[k].result
        /\ main.totals # <<>> => \A i \in Runs : run[i].pc = "returned"

\* C19 amended: position k of the results holds what optimize_pdf returned
\* for input k (its result, or its error), whatever the order in which the
\* workers finish; the totals exist only once every worker has finished and
\* every position is filled. The per-file lines are printed by the workers
\* as they go, so they come in completion order.
C19_ResultsByIndexTotalsAfterJoin ==
    cmd = "batch" =>
        /\ \A k \in DOMAIN main.results :
              /\ Reported(k) =>
                    /\ run[k].pc = "returned"
                    /\ main.results[k].res = run[k].result
                    /\ main.results[k].error = run[k].error
                    /\ main.results[k].tag = IF run[k].result # <<>> THEN "Ok" ELSE "Err"
              /\ run[k].loaded_size # <<>> => run[k].loaded_size[1] = files[k].size
              /\ run[k].result # <<>> => run[k].result[1].original_size = files[k].size
        /\ main.totals # <<>> =>
              /\ InFlight = {}
              /\ \A i \in Runs : run[i].pc = "returned" /\ Reported(i)

C19_Witness ==
    /\ cmd = "batch"
    /\ main.totals # <<>>
    /\ Len(files) = 2
    /\ Len(main.stderr) = 2
    /\ main.stderr[1] = <<2, "Failed to load PDF">>
    /\ main.stderr[2] = <<1, "Failed to optimize image">>
    /\ main.results[1].error = "Failed to optimize image"
    /\ main.results[2].error = "Failed to load PDF"

LoadCalls(r) == Cardinality({n \in DOMAIN r.steps : r.steps[n] = "load_pdf"})

\* C20 (as claimed): with --threads W exactly W workers process the files,
\* so never more than W files are being optimized at once, for every W; each
\* file is taken by one worker, once.
C20_ExactlyThreadsWorkers ==
    (cmd = "batch" /\ main.pool # <<>>) =>
        /\ main.pool[1] = main.threads
        /\ Cardinality(InFlight) <= main.threads
        /\ \A i \in Runs : run[i].taken <= 1 /\ LoadCalls(run[i]) <= 1

\* C20 amended: with --threads W >= 1, and a pool that could be built, the
\* pool has exactly W workers and never more than W files are being
\* optimized at once; with W = 0, or when the pool could not be built (a
\* warning is printed), the pool has rayon's default number of workers and
\* that number bounds the files being optimized at once. In every case each
\* file is taken by one worker, once, and nothing is retried.
C20_PoolBoundsConcurrency ==
    (cmd = "batch" /\ main.pool # <<>>) =>
        /\ (main.threads >= 1 /\ main.env.build_ok) => main.pool[1] = main.threads
        /\ (main.threads = 0 \/ ~main.env.build_ok) => main.pool[1] = main.env.cpus
        /\ Cardinality(InFlight) <= main.pool[1]
        /\ \A i \in Runs :
              /\ run[i].taken <= 1
              /\ LoadCalls(run[i]) = (IF run[i].pc \in {"queued", "load"} THEN 0 ELSE 1)
              /\ main.totals # <<>> => run[i].taken = 1

C20_Witness ==
    /\ cmd = "batch"
    /\ main.threads = 1
    /\ main.env = Machine(2, TRUE)
    /\ main.pool = <<1>>
    /\ Len(files) = 2
    /\ InFlight = {2}
    /\ run[2].pc = "images"
    /\ run[1].pc = "queued"

(***************************************************************************)
(* The files of a batch as shared resources.                               *)
(***************************************************************************)
DistinctInputs ==
    \A i, j \in DOMAIN main.inputs : i # j => main.inputs[i] # main.inputs[j]

\* C21 (as claimed): for a list of distinct input paths the output paths of
\* the work items are pairwise distinct and none equals the input path of
\* another work item, so a file a worker has written and measured is still
\* as that worker wrote it.
C21_NoFileSharedByTwoUnits ==
    (cmd = "batch" /\ main.work_items # <<>> /\ DistinctInputs) =>
        /\ \A i, j \in DOMAIN main.work_items :
              i # j =>
                  /\ main.work_items[i].output_file # main.work_items[j].output_file
                  /\ main.work_items[i].output_file # main.work_items[j].input_file
        /\ \A i \in Runs :
              run[i].result # <<>> => out[i] = <<run[i].result[1].optimized_size>>

\* C22 (as claimed): for every file of a batch that optimize_pdf succeeded
\* on, the output is not larger than the input, so the u64 subtraction
\* original_size - optimized_size in the worker does not overflow: no worker
\* panics and no reported difference is a wrapped value.
C22_SavedBytesNeverUnderflow ==
    cmd = "batch" =>
        \A i \in Runs :
            /\ run[i].pc # "panicked"
            /\ run[i].result # <<>> =>
                  run[i].result[1].optimized_size <= run[i].result[1].original_size
            /\ main.results[i].tag = "Ok" => ~main.results[i].saved[1].overflow

\* C23: resize_image_if_needed leaves the image as it is when no max dimension
\* is configured or when both sides are at most the max dimension; otherwise
\* the requested target has its larger side equal to the max dimension, the
\* other side the original one scaled by the same ratio and truncated, and
\* both sides between 1 and the max dimension.
C23_ResizeTargetWithinBounds ==
    (cmd = "resize" /\ run[1].resized # <<>>) =>
        LET img == run[1].img[1]
            max_dimension == run[1].image_settings[1].max_dimension
            target == run[1].resized[1]
            larger == Max(img.width, img.height)
        IN  IF max_dimension = <<>> \/ larger <= max_dimension[1]
            THEN target = [resized |-> FALSE,
                           width |-> img.width, height |-> img.height]
            ELSE /\ target.resized
                 /\ Max(target.width, target.height) = max_dimension[1]
                 /\ target.width = (img.width * max_dimension[1]) \div larger
                 /\ target.height = (img.height * max_dimension[1]) \div larger
                 /\ target.width \in 1..max_dimension[1]
                 /\ target.height \in 1..max_dimension[1]

\* C24: for every preset and every document on which optimize_pdf succeeds,
\* the reported images_optimized equals the image_count that analyze_pdf
\* computed for the loaded document: every stream with Subtype Image is
\* replaced and counted exactly once, each as JPEG or as PNG and none by the
\* branch that converts another format.
C24_EveryImageOptimizedOnce ==
    \A i \in Runs :
        (cmd \in {"optimize", "batch"} /\ run[i].result # <<>>) =>
            /\ run[i].analysis # <<>>
            /\ run[i].result[1].images_optimized = run[i].analysis[1].image_count
            /\ run[i].analysis[1].image_count =
                   Cardinality(ImageStreams(run[i].objects))
            /\ Len(run[i].trace) = Cardinality(ImageStreams(run[i].objects))
            /\ {run[i].trace[n].at : n \in DOMAIN run[i].trace} =
                   ImageStreams(run[i].objects)
            /\ \A n \in DOMAIN run[i].trace :
                  /\ run[i].trace[n].tag = "Some"
                  /\ run[i].trace[n].format \in {"Jpeg", "Png"}
                  /\ run[i].doc.objects[run[i].trace[n].at].content
                         \in JpegOutputs \cup PngOutputs

C24_Witness ==
    \E i \in Runs :
        /\ cmd \in {"optimize", "batch"}
        /\ run[i].result # <<>>
        /\ run[i].objects = <<FlatePngImage, JpegImage>>
        /\ run[i].analysis[1].image_count = 2
        /\ run[i].result[1].images_optimized = 2
        /\ run[i].trace[1].format = "Png"
        /\ run[i].trace[2].format = "Jpeg"

\* C25: in the renamer's batch mode the target names after duplicate handling
\* are pairwise distinct, no rename lands on a path held by another PDF of the
\* batch, so no file is overwritten and the directory holds as many PDFs
\* afterwards as before; with dry-run set no file is renamed.
C25_BatchRenameLosesNoFile ==
    cmd = "rename" =>
        /\ main.pc \in {"rename", "done"} =>
              \A i, j \in DOMAIN main.proposed_renames :
                  i # j => main.proposed_renames[i].new_name
                               # main.proposed_renames[j].new_name
        /\ main.overwritten = <<>>
        /\ {files[n].id : n \in DOMAIN files} = DOMAIN main.before
        /\ Cardinality(PdfEntries(files)) = Cardinality(PdfEntries(main.before))
        /\ main.dry_run => files = main.before

====
